---- MODULE Spec2Model ----
(***************************************************************************)
(* Model of PassportScannerApp (scanImagePython.py): the MRZ date and name *)
(* normalisation and the scan_mrz handler that drives them.                *)
(*                                                                         *)
(* A Python str is a sequence of characters, each character a one-element  *)
(* token.  Two characters outside ASCII stand for the Unicode classes that *)
(* str.isdigit() and int() treat differently:                              *)
(*   "sup2"  U+00B2 SUPERSCRIPT TWO   isdigit() True, int() ValueError     *)
(*   "ar3"   U+0663 ARABIC-INDIC 3    isdigit() True, int() gives 3        *)
(***************************************************************************)
EXTENDS Integers, Sequences, FiniteSets

VARIABLES
    is_expiration_date,   \* self.is_expiration_date
    mrz_date,             \* argument of the parse_mrz_date call under test
    date_result,          \* outcome of that call
    reference_year,       \* calendar year in which the call is made
    date_pc,              \* "call" before, "returned" after
    mrz_name,             \* argument of the parse_mrz_name call under test
    name_result,          \* outcome of that call
    name_again,           \* outcome of parse_mrz_name on name_result
    name_pc,              \* "call", "returned", "again"
    pc,                   \* position inside scan_mrz, "idle" in the event loop
    current_image_path,   \* self.current_image_path (TRUE when set)
    scan_enabled,         \* self.scan_button enabled
    mrz_data,             \* local mrz_data of scan_mrz
    expiration_date,      \* local expiration_date of scan_mrz
    fields,               \* local fields of scan_mrz
    text_output,          \* kind of text shown in self.text_output
    call_log              \* parse_mrz_date calls made by scan_mrz so far

vars == <<is_expiration_date, mrz_date, date_result, reference_year, date_pc,
          mrz_name, name_result, name_again, name_pc,
          pc, current_image_path, scan_enabled, mrz_data, expiration_date,
          fields, text_output, call_log>>

dateVars == <<mrz_date, date_result, reference_year, date_pc>>
nameVars == <<mrz_name, name_result, name_again, name_pc>>
scanVars == <<pc, current_image_path, scan_enabled, mrz_data, expiration_date,
              fields, text_output, call_log>>

----------------------------------------------------------------------------
(* Bounds *)

MaxDateLen == 7
MaxNameLen == 5

----------------------------------------------------------------------------
(* Python values and outcomes *)

AsciiDigits == {"0", "1", "2", "3", "4", "5", "6", "7", "8", "9"}

\* Characters for which str.isdigit() is True.
UnicodeDigits == AsciiDigits \cup {"sup2", "ar3"}

\* Characters int() accepts as decimal digits.
DecimalDigits == AsciiDigits \cup {"ar3"}

DigitValue(c) ==
    CASE c = "0" -> 0 [] c = "1" -> 1 [] c = "2" -> 2 [] c = "3" -> 3
      [] c = "4" -> 4 [] c = "5" -> 5 [] c = "6" -> 6 [] c = "7" -> 7
      [] c = "8" -> 8 [] c = "9" -> 9 [] c = "ar3" -> 3

Return(v) == [raised |-> "", value |-> v]
Raise(e) == [raised |-> e, value |-> <<>>]
NoOutcome == [raised |-> "not called", value |-> <<>>]

PyStr(s) == [type |-> "str", chars |-> s, num |-> 0]
PyNone == [type |-> "NoneType", chars |-> <<>>, num |-> 0]
PyInt(n) == [type |-> "int", chars |-> <<>>, num |-> n]

\* bool(x) for the value kinds above
truthy(x) ==
    CASE x.type = "str" -> x.chars # <<>>
      [] x.type = "NoneType" -> FALSE
      [] x.type = "int" -> x.num # 0

\* str.isdigit()
isdigit(s) == Len(s) > 0 /\ \A i \in 1..Len(s) : s[i] \in UnicodeDigits

\* int(s) for a str s on which isdigit() holds
RECURSIVE decimal(_)
decimal(s) ==
    IF s = <<>> THEN 0
    ELSE 10 * decimal(SubSeq(s, 1, Len(s) - 1)) + DigitValue(s[Len(s)])

int(s) ==
    IF \A i \in 1..Len(s) : s[i] \in DecimalDigits
    THEN Return(decimal(s))
    ELSE Raise("ValueError")

InvalidDate == <<"I", "n", "v", "a", "l", "i", "d", " ", "d", "a", "t", "e">>
Unknown == <<"U", "n", "k", "n", "o", "w", "n">>

----------------------------------------------------------------------------
(* parse_mrz_date *)

ExpirationCenturyOffByOne(yy) == IF yy <= 30 THEN <<"2", "0">> ELSE <<"1", "9">>
\* "20" if int(mrz_date[:2]) < 30 else "19"
ExpirationCentury(yy) == IF yy < 30 THEN <<"2", "0">> ELSE <<"1", "9">>

BirthCenturyOffByOne(yy) == IF yy >= 30 THEN <<"1", "9">> ELSE <<"2", "0">>
\* "19" if int(mrz_date[:2]) > 30 else "20"
BirthCentury(yy) == IF yy > 30 THEN <<"1", "9">> ELSE <<"2", "0">>

FormatDateMonthFirst(s, year) ==
    SubSeq(s, 3, 4) \o <<"/">> \o SubSeq(s, 5, 6) \o <<"/">> \o year
\* f"{mrz_date[4:6]}/{mrz_date[2:4]}/{year}"
FormatDate(s, year) ==
    SubSeq(s, 5, 6) \o <<"/">> \o SubSeq(s, 3, 4) \o <<"/">> \o year

parse_mrz_date(flag, s) ==
    IF Len(s) # 6 \/ ~isdigit(s) THEN Return(InvalidDate)
    ELSE LET yy == int(SubSeq(s, 1, 2)) IN
         IF yy.raised # "" THEN yy
         ELSE LET century == IF flag THEN ExpirationCentury(yy.value)
                             ELSE BirthCentury(yy.value)
              IN Return(FormatDate(s, century \o SubSeq(s, 1, 2)))

----------------------------------------------------------------------------
(* parse_mrz_name *)

\* '<' in s
contains(s, c) == \E i \in 1..Len(s) : s[i] = c

\* s.find(c) + 1 for a c that occurs in s
first(s, c) == CHOOSE i \in 1..Len(s) : s[i] = c /\ \A j \in 1..(i - 1) : s[j] # c

\* s.split(c)
RECURSIVE split(_, _)
split(s, c) ==
    IF ~contains(s, c) THEN <<s>>
    ELSE <<SubSeq(s, 1, first(s, c) - 1)>>
             \o split(SubSeq(s, first(s, c) + 1, Len(s)), c)

Whitespace == {" "}

RECURSIVE lstrip(_)
lstrip(s) == IF s # <<>> /\ s[1] \in Whitespace THEN lstrip(Tail(s)) ELSE s

RECURSIVE rstrip(_)
rstrip(s) ==
    IF s # <<>> /\ s[Len(s)] \in Whitespace
    THEN rstrip(SubSeq(s, 1, Len(s) - 1)) ELSE s

\* s.strip()
strip(s) == rstrip(lstrip(s))

\* [part.strip() for part in mrz_name.split('<') if part.strip()]
stripped_parts(s) ==
    LET nonEmpty(p) == strip(p) # <<>>
        kept == SelectSeq(split(s, "<"), nonEmpty)
    IN [i \in 1..Len(kept) |-> strip(kept[i])]

JoinNameSurnameFirst(parts) == parts[1] \o <<" ">> \o parts[2]
JoinNameKeepSeparator(parts) == parts[2] \o <<"<">> \o parts[1]
\* f"{parts[1]} {parts[0]}"
JoinName(parts) == parts[2] \o <<" ">> \o parts[1]

FirstPartAlwaysUnknown(parts) == Unknown
\* parts[0] if parts else "Unknown"
FirstPartOrUnknown(parts) == IF parts # <<>> THEN parts[1] ELSE Unknown

\* the body of the try block; str.split and str.strip do not raise on a str
parse_mrz_name_try(s) ==
    IF contains(s, "<")
    THEN LET parts == stripped_parts(s) IN
         IF Len(parts) >= 2 THEN Return(JoinName(parts))
         ELSE Return(FirstPartOrUnknown(parts))
    ELSE Return(s)

parse_mrz_name(x) ==
    IF ~truthy(x) \/ x.type # "str" THEN Return(Unknown)
    ELSE LET r == parse_mrz_name_try(x.chars) IN
         IF r.raised # "" THEN Return(x.chars) ELSE r

----------------------------------------------------------------------------
(* Inputs of the two functions under test *)

SeqsUpTo(S, n) == UNION {[1..k -> S] : k \in 0..n}

\* first n characters of s (s[:n])
Take(s, n) == SubSeq(s, 1, IF n < Len(s) THEN n ELSE Len(s))

YearChars == UnicodeDigits \cup {"X"}

\* month and day digits, calendar-valid or not, and malformed ones
MonthDays ==
    [1..4 -> {"0", "3"}]
      \cup { <<"1", "3", "3", "2">>, <<"0", "1", "0", "1">>,
             <<"1", "2", "3", "1">>, <<"0", "1", "0", "X">>,
             <<"X", "1", "0", "1">>, <<"0", "1", "0", "sup2">>,
             <<"0", "ar3", "0", "1">> }

\* strings of 0..MaxDateLen characters: prefixes of YYMMDD followed by zeros
DateInputs ==
    { Take(y \o md \o [i \in 1..MaxDateLen |-> "0"], n) :
          y \in [1..2 -> YearChars], md \in MonthDays, n \in 0..MaxDateLen }

ReferenceYears == 2025..2030

NameChars == {"A", "B", "<", " "}

NameInputs ==
    {PyNone, PyInt(0), PyInt(7)}
      \cup {PyStr(s) : s \in SeqsUpTo(NameChars, MaxNameLen)}

----------------------------------------------------------------------------
(* scan_mrz *)

Keys == {"type", "country", "number", "date_of_birth", "expiration_date",
         "nationality", "sex", "names"}

\* marks a key the MRZ mapping does not hold
Absent == <<"(absent)">>

NoData == [k \in Keys |-> Absent]

\* mappings read_mrz(...).to_dict() may yield
MrzDicts ==
    [type : {Absent, <<"P">>},
     country : {Absent, <<"U", "T", "O">>},
     number : {Absent, <<"L", "8">>},
     date_of_birth : {Absent, <<"3", "0", "0", "1", "0", "1">>,
                      <<"sup2", "sup2", "0", "1", "0", "1">>},
     expiration_date : {Absent, <<"2", "9", "0", "1", "0", "1">>,
                        <<"sup2", "5", "0", "1", "0", "1">>},
     nationality : {Absent, <<"U", "T", "O">>},
     sex : {Absent, <<"M">>, <<"F">>},
     names : {Absent, <<"D", "<", "<", "J">>, <<"D", "O", "E">>}]

\* mrz_data.get(k, default)
mrz_get(d, k, default) == IF d[k] = Absent THEN default ELSE d[k]

Zeros == <<"0", "0", "0", "0", "0", "0">>
Male == <<"M", "a", "l", "e">>
Female == <<"F", "e", "m", "a", "l", "e">>

\* 'Male' if mrz_data.get('sex') == 'M' else 'Female'
Gender(d) == IF d["sex"] = <<"M">> THEN Male ELSE Female

\* the fields list, given the two parsed dates and the parsed name
FieldList(d, birth, expiration, name) ==
    << [label |-> "Document Type", value |-> mrz_get(d, "type", Unknown)],
       [label |-> "Issuing Country", value |-> mrz_get(d, "country", Unknown)],
       [label |-> "Passport Number", value |-> mrz_get(d, "number", Unknown)],
       [label |-> "Date of Birth", value |-> birth],
       [label |-> "Expiration Date", value |-> expiration],
       [label |-> "Nationality", value |-> mrz_get(d, "nationality", Unknown)],
       [label |-> "Gender", value |-> Gender(d)],
       [label |-> "Full Name", value |-> name] >>

NoFields == <<>>

\* the except clause of scan_mrz: show the error, drop the locals
ErrorHandler ==
    /\ text_output' = "error"
    /\ pc' = "idle"
    /\ mrz_data' = NoData
    /\ expiration_date' = <<>>
    /\ fields' = NoFields

\* load_image: a file is chosen, or the dialog is cancelled
load_image ==
    /\ pc = "idle"
    /\ \/ /\ current_image_path' = TRUE
          /\ scan_enabled' = TRUE
          /\ text_output' = "empty"
       \/ UNCHANGED <<current_image_path, scan_enabled, text_output>>
    /\ UNCHANGED <<is_expiration_date, pc, mrz_data, expiration_date, fields,
                   call_log>>
    /\ UNCHANGED <<dateVars, nameVars>>

\* scan_mrz without an image: the early return
ScanNoImage ==
    /\ pc = "idle"
    /\ ~current_image_path
    /\ UNCHANGED vars

\* scan_mrz up to mrz.to_dict(): OCR fails, finds no MRZ, or yields a mapping
ScanReadMrz ==
    /\ pc = "idle"
    /\ current_image_path
    /\ \/ /\ ErrorHandler
       \/ /\ text_output' = "no_mrz"
          /\ UNCHANGED <<pc, mrz_data, expiration_date, fields>>
       \/ /\ \E d \in MrzDicts : mrz_data' = d
          /\ pc' = "set_flag"
          /\ UNCHANGED <<expiration_date, fields, text_output>>
    /\ UNCHANGED <<is_expiration_date, current_image_path, scan_enabled, call_log>>
    /\ UNCHANGED <<dateVars, nameVars>>

\* self.is_expiration_date = True
SetExpirationFlag ==
    /\ pc = "set_flag"
    /\ is_expiration_date' = TRUE
    /\ pc' = "parse_expiration"
    /\ UNCHANGED <<current_image_path, scan_enabled, mrz_data, expiration_date,
                   fields, text_output, call_log>>
    /\ UNCHANGED <<dateVars, nameVars>>

\* expiration_date = self.parse_mrz_date(mrz_data.get('expiration_date', '000000'))
ParseExpiration ==
    /\ pc = "parse_expiration"
    /\ LET r == parse_mrz_date(is_expiration_date,
                               mrz_get(mrz_data, "expiration_date", Zeros))
       IN IF r.raised # "" THEN ErrorHandler
          ELSE /\ expiration_date' = r.value
               /\ pc' = "clear_flag"
               /\ UNCHANGED <<mrz_data, fields, text_output>>
    /\ call_log' = call_log \cup
           {[field |-> "expiration_date", flag |-> is_expiration_date]}
    /\ UNCHANGED <<is_expiration_date, current_image_path, scan_enabled>>
    /\ UNCHANGED <<dateVars, nameVars>>

\* self.is_expiration_date = False
ClearExpirationFlag ==
    /\ pc = "clear_flag"
    /\ is_expiration_date' = FALSE
    /\ pc' = "build_fields"
    /\ UNCHANGED <<current_image_path, scan_enabled, mrz_data, expiration_date,
                   fields, text_output, call_log>>
    /\ UNCHANGED <<dateVars, nameVars>>

\* fields = [...]
BuildFields ==
    /\ pc = "build_fields"
    /\ LET birth == parse_mrz_date(is_expiration_date,
                                   mrz_get(mrz_data, "date_of_birth", Zeros))
           name == parse_mrz_name(PyStr(mrz_get(mrz_data, "names", Unknown)))
       IN IF birth.raised # "" THEN ErrorHandler
          ELSE /\ fields' = FieldList(mrz_data, birth.value, expiration_date,
                                      name.value)
               /\ pc' = "show"
               /\ UNCHANGED <<mrz_data, expiration_date, text_output>>
    /\ call_log' = call_log \cup
           {[field |-> "date_of_birth", flag |-> is_expiration_date]}
    /\ UNCHANGED <<is_expiration_date, current_image_path, scan_enabled>>
    /\ UNCHANGED <<dateVars, nameVars>>

\* setText(result_text), highlight_mrz_area, display_image (which may raise)
ShowResult ==
    /\ pc = "show"
    /\ \/ /\ text_output' = "result"
          /\ pc' = "idle"
          /\ mrz_data' = NoData
          /\ expiration_date' = <<>>
          /\ fields' = NoFields
       \/ ErrorHandler
    /\ UNCHANGED <<is_expiration_date, current_image_path, scan_enabled, call_log>>
    /\ UNCHANGED <<dateVars, nameVars>>

----------------------------------------------------------------------------
(* The calls under test *)

ParseDateCall ==
    /\ date_pc = "call"
    /\ date_result' = parse_mrz_date(is_expiration_date, mrz_date)
    /\ date_pc' = "returned"
    /\ UNCHANGED <<is_expiration_date, mrz_date, reference_year>>
    /\ UNCHANGED <<nameVars, scanVars>>

ParseNameCall ==
    /\ name_pc = "call"
    /\ name_result' = parse_mrz_name(mrz_name)
    /\ name_pc' = "returned"
    /\ UNCHANGED <<mrz_name, name_again>>
    /\ UNCHANGED <<is_expiration_date, dateVars, scanVars>>

ParseNameAgain ==
    /\ name_pc = "returned"
    /\ name_again' = parse_mrz_name(PyStr(name_result.value))
    /\ name_pc' = "again"
    /\ UNCHANGED <<mrz_name, name_result>>
    /\ UNCHANGED <<is_expiration_date, dateVars, scanVars>>

----------------------------------------------------------------------------
(* Specifications *)

DateIdle ==
    /\ mrz_date = <<>>
    /\ date_result = NoOutcome
    /\ reference_year = 2025
    /\ date_pc = "returned"

NameIdle ==
    /\ mrz_name = PyNone
    /\ name_result = NoOutcome
    /\ name_again = NoOutcome
    /\ name_pc = "again"

\* the application after __init__
ScanInit ==
    /\ pc = "idle"
    /\ current_image_path = FALSE
    /\ scan_enabled = FALSE
    /\ mrz_data = NoData
    /\ expiration_date = <<>>
    /\ fields = NoFields
    /\ text_output = "empty"
    /\ call_log = {}

Init ==
    /\ is_expiration_date = FALSE
    /\ ScanInit
    /\ DateIdle
    /\ NameIdle

Next ==
    \/ load_image
    \/ ScanNoImage
    \/ ScanReadMrz
    \/ SetExpirationFlag
    \/ ParseExpiration
    \/ ClearExpirationFlag
    \/ BuildFields
    \/ ShowResult

Spec == Init /\ [][Next]_vars

InitDate ==
    /\ is_expiration_date \in BOOLEAN
    /\ mrz_date \in DateInputs
    /\ date_result = NoOutcome
    /\ reference_year \in ReferenceYears
    /\ date_pc = "call"
    /\ ScanInit
    /\ NameIdle

NextDate == ParseDateCall

SpecDate == InitDate /\ [][NextDate]_vars

InitName ==
    /\ is_expiration_date = FALSE
    /\ mrz_name \in NameInputs
    /\ name_result = NoOutcome
    /\ name_again = NoOutcome
    /\ name_pc = "call"
    /\ ScanInit
    /\ DateIdle

NextName == ParseNameCall \/ ParseNameAgain

SpecName == InitName /\ [][NextName]_vars

----------------------------------------------------------------------------
(* Vocabulary of the properties, stated without the operators above *)

Numerals == <<"0", "1", "2", "3", "4", "5", "6", "7", "8", "9">>

\* the number an ASCII digit character denotes
NumeralValue(c) == (CHOOSE i \in 1..10 : Numerals[i] = c) - 1

IsSixAsciiDigits(s) == Len(s) = 6 /\ \A i \in 1..6 : s[i] \in AsciiDigits

\* YY of a YYMMDD string of ASCII digits
TwoDigitYear(s) == 10 * NumeralValue(s[1]) + NumeralValue(s[2])

\* YYYY of a DD/MM/YYYY string
ResolvedYear(v) ==
    1000 * NumeralValue(v[7]) + 100 * NumeralValue(v[8])
      + 10 * NumeralValue(v[9]) + NumeralValue(v[10])

DateReturned == date_pc = "returned" /\ date_result # NoOutcome

\* The trimmed non-empty segments of s between '<' separators, as index
\* intervals <<a, b>>: no '<' inside, no blank at either end, and only blanks
\* between the interval and the nearest '<' (or string end) on each side.
SegmentSpans(s) ==
    { ab \in (1..Len(s)) \X (1..Len(s)) :
        /\ ab[1] <= ab[2]
        /\ \A k \in ab[1]..ab[2] : s[k] # "<"
        /\ s[ab[1]] # " " /\ s[ab[2]] # " "
        /\ \A k \in 1..(ab[1] - 1) :
              (\A m \in k..(ab[1] - 1) : s[m] # "<") => s[k] = " "
        /\ \A k \in (ab[2] + 1)..Len(s) :
              (\A m \in (ab[2] + 1)..k : s[m] # "<") => s[k] = " " }

\* the n-th such segment in input order
Segment(s, n) ==
    LET ab == CHOOSE x \in SegmentSpans(s) :
                  Cardinality({y \in SegmentSpans(s) : y[1] < x[1]}) = n - 1
    IN SubSeq(s, ab[1], ab[2])

NameReturned == name_pc \in {"returned", "again"}

IsText(x) == x.type = "str"

HasSeparator(x) == IsText(x) /\ \E i \in 1..Len(x.chars) : x.chars[i] = "<"

\* the label under which scan_mrz shows a string field of the mapping
LabelOf(k) ==
    CASE k = "type" -> "Document Type"
      [] k = "country" -> "Issuing Country"
      [] k = "number" -> "Passport Number"
      [] k = "nationality" -> "Nationality"
      [] k = "sex" -> "Gender"
      [] k = "names" -> "Full Name"
      [] k = "date_of_birth" -> "Date of Birth"
      [] k = "expiration_date" -> "Expiration Date"

Shown(k) == (CHOOSE i \in 1..Len(fields) : fields[i].label = LabelOf(k))

ShownValue(k) == fields[Shown(k)].value

\* where scan_mrz stands between setting the flag and clearing it again
ExpirationWindow == {"parse_expiration", "clear_flag"}

StringKeys == {"type", "country", "number", "nationality", "sex", "names"}
DateKeys == {"date_of_birth", "expiration_date"}

----------------------------------------------------------------------------
(* Properties *)

\* C1: a raw date that is not exactly 6 characters long, or that holds a
\* character other than 0-9, makes parse_mrz_date return "Invalid date" (a
\* normal return, no exception), whatever is_expiration_date is.
C1_MalformedGivesInvalidDate ==
    (DateReturned /\ ~IsSixAsciiDigits(mrz_date))
        => date_result = [raised |-> "", value |-> InvalidDate]

\* C2: a 6-digit date resolved as an expiration date gets the year 2000+YY
\* when YY < 30 and 1900+YY otherwise.
C2_ExpirationPivot ==
    (DateReturned /\ is_expiration_date /\ IsSixAsciiDigits(mrz_date))
        => /\ date_result.raised = ""
           /\ Len(date_result.value) = 10
           /\ ResolvedYear(date_result.value) =
                 IF TwoDigitYear(mrz_date) < 30
                 THEN 2000 + TwoDigitYear(mrz_date)
                 ELSE 1900 + TwoDigitYear(mrz_date)

\* YY = 29 resolved as an expiration date gave 2029
C2_Witness ==
    /\ DateReturned /\ is_expiration_date
    /\ mrz_date = <<"2", "9", "0", "1", "0", "1">>
    /\ date_result.value = <<"0", "1", "/", "0", "1", "/", "2", "0", "2", "9">>

\* C3: a 6-digit date resolved as a birth date gets the year 1900+YY when
\* YY > 30 and 2000+YY otherwise.
C3_BirthPivot ==
    (DateReturned /\ ~is_expiration_date /\ IsSixAsciiDigits(mrz_date))
        => /\ date_result.raised = ""
           /\ Len(date_result.value) = 10
           /\ ResolvedYear(date_result.value) =
                 IF TwoDigitYear(mrz_date) > 30
                 THEN 1900 + TwoDigitYear(mrz_date)
                 ELSE 2000 + TwoDigitYear(mrz_date)

\* YY = 30 resolved as a birth date gave 2030
C3_Witness ==
    /\ DateReturned /\ ~is_expiration_date
    /\ mrz_date = <<"3", "0", "0", "1", "0", "1">>
    /\ date_result.value = <<"0", "1", "/", "0", "1", "/", "2", "0", "3", "0">>

\* C4: for a string of exactly 6 ASCII digits and either field kind,
\* parse_mrz_date does not raise and returns DD/MM/YYYY with DD = characters
\* 5-6 and MM = characters 3-4 of the input, copied verbatim; it is never
\* "Invalid date", whatever the month and day are.
C4_SixDigitsFormatted ==
    (DateReturned /\ IsSixAsciiDigits(mrz_date))
        => /\ date_result.raised = ""
           /\ date_result.value # InvalidDate
           /\ Len(date_result.value) = 10
           /\ date_result.value[1] = mrz_date[5]
           /\ date_result.value[2] = mrz_date[6]
           /\ date_result.value[3] = "/"
           /\ date_result.value[4] = mrz_date[3]
           /\ date_result.value[5] = mrz_date[4]
           /\ date_result.value[6] = "/"
           /\ \A i \in 7..10 : date_result.value[i] \in AsciiDigits

\* month 13, day 32 passed through
C4_Witness ==
    /\ DateReturned
    /\ mrz_date = <<"2", "5", "1", "3", "3", "2">>
    /\ date_result.value = <<"3", "2", "/", "1", "3", "/", "2", "0", "2", "5">>

\* C5: a 6-digit date resolved as a birth date has a year not later than the
\* year in which it is resolved.
C5_BirthYearNotInFuture ==
    (DateReturned /\ ~is_expiration_date /\ IsSixAsciiDigits(mrz_date)
       /\ date_result.raised = "" /\ Len(date_result.value) = 10)
        => ResolvedYear(date_result.value) <= reference_year

\* C6: a string with '<' that has at least two non-empty trimmed segments
\* resolves to "<second segment> <first segment>"; nothing of any later
\* segment appears.
C6_GivenThenSurname ==
    (NameReturned /\ HasSeparator(mrz_name)
       /\ Cardinality(SegmentSpans(mrz_name.chars)) >= 2)
        => name_result =
              [raised |-> "",
               value |-> Segment(mrz_name.chars, 2) \o <<" ">>
                           \o Segment(mrz_name.chars, 1)]

\* "A<B<B" has three segments and resolved to "B A"
C6_Witness ==
    /\ NameReturned
    /\ mrz_name = [type |-> "str", chars |-> <<"A", "<", "B", "<", "B">>, num |-> 0]
    /\ name_result.value = <<"B", " ", "A">>

\* C7: parse_mrz_name returns "Unknown" for an empty, absent or non-text
\* input and for an input with '<' that has no non-empty trimmed segment; with
\* '<' and exactly one such segment it returns that segment.
C7_UnknownOrSingleSegment ==
    NameReturned =>
        /\ (~IsText(mrz_name) \/ mrz_name.chars = <<>>)
              => name_result = [raised |-> "", value |-> Unknown]
        /\ (HasSeparator(mrz_name) /\ SegmentSpans(mrz_name.chars) = {})
              => name_result = [raised |-> "", value |-> Unknown]
        /\ (HasSeparator(mrz_name)
              /\ Cardinality(SegmentSpans(mrz_name.chars)) = 1)
              => name_result =
                    [raised |-> "", value |-> Segment(mrz_name.chars, 1)]

\* "<<<<" resolved to "Unknown"
C7_Witness ==
    /\ NameReturned
    /\ mrz_name = [type |-> "str", chars |-> <<"<", "<", "<", "<">>, num |-> 0]
    /\ name_result.value = Unknown

\* C8: a non-empty name without '<' is returned unchanged, no result holds a
\* '<', and resolving a result again gives the same result.
C8_Idempotent ==
    /\ NameReturned =>
          /\ name_result.raised = ""
          /\ \A i \in 1..Len(name_result.value) : name_result.value[i] # "<"
          /\ (IsText(mrz_name) /\ mrz_name.chars # <<>> /\ ~HasSeparator(mrz_name))
                => name_result.value = mrz_name.chars
    /\ name_pc = "again" => name_again = name_result

\* "A<B" resolved to "B A", and "B A" resolved to "B A" again
C8_Witness ==
    /\ name_pc = "again"
    /\ mrz_name = [type |-> "str", chars |-> <<"A", "<", "B">>, num |-> 0]
    /\ name_result.value = <<"B", " ", "A">>
    /\ name_again.value = <<"B", " ", "A">>

\* C9: in the assembled result list a string field whose key the mapping
\* lacks shows "Unknown", and a date whose key it lacks shows the resolution
\* of "000000".
C9_MissingKeysShowPlaceholder ==
    pc = "show" =>
        /\ \A k \in StringKeys : mrz_data[k] = Absent => ShownValue(k) = Unknown
        /\ \A k \in DateKeys : mrz_data[k] = Absent =>
              ShownValue(k) = <<"0", "0", "/", "0", "0", "/", "2", "0", "0", "0">>

\* C10: is_expiration_date is True only while scan_mrz parses the expiration
\* date, also after a scan that ended in the error handler; every birth date
\* is parsed with the flag False and every expiration date with it True.
C10_FlagOnlyDuringExpirationParse ==
    /\ is_expiration_date => pc \in ExpirationWindow
    /\ \A c \in call_log : c.flag = (c.field = "expiration_date")

\* the part of C10 about the calls alone: the flag each parse_mrz_date call
\* of scan_mrz runs with is the one its field asks for
CallsUseTheirOwnFlag ==
    \A c \in call_log : c.flag = (c.field = "expiration_date")

====
